---- MODULE Spec2Model ----
(***************************************************************************)
(* paper-bot (src/src/main.rs): one run of the pipeline                    *)
(*   fetch -> shuffle -> for i in 0..min(3, N): translate, then publish.   *)
(* The state is main's locals, the HTTP requests in flight, the requests   *)
(* the three services have been sent, and the lines printed on stdout.     *)
(* Init is the state after the four environment values have been read      *)
(* (main.rs:64-68); configuration loading itself is outside the model.     *)
(* Texts are sequences of tokens; the token "\n" is a line break.           *)
(***************************************************************************)
EXTENDS Naturals, Sequences, FiniteSets

\* ---------------------------------------------------------------- bounds
\* Largest number of papers the index returns in the model (the query asks
\* for at most 10, main.rs:74).
MaxPapers == 4
\* Largest number of choices in a chat completion body.
MaxChoices == 2

\* ------------------------------------------------------ program constants
\* main.rs:82, min(3, arxivs.len())
SampleSize == 3
\* reqwest::StatusCode::OK, UNAUTHORIZED, TOO_MANY_REQUESTS
StatusOK == 200
StatusUnauthorized == 401
StatusTooManyRequests == 429
\* Statuses that fall to the `_` arm of both matches.
OtherStatuses == {201, 500}
Statuses == {StatusOK, StatusUnauthorized, StatusTooManyRequests} \cup OtherStatuses

NL == "\n"
\* The literal that opens the format string of main.rs:175 (the three
\* Japanese characters for "date of issue", then ": ").
DateLabel == "hakkoubi: "
\* The printed lines and error texts (the leading emoji of each is left out).
SuccessLine == <<"Successfully posted to Slack">>
ErrUnauthorized == <<"Status: UNAUTHORIZED - Need to grab a new token">>
ErrTooManyRequests == <<"Status: 429 - Too many requests">>
ErrUnexpected == <<"Status: {:#?} - Something unexpected happened">>
ErrShape == <<"Hm, the response didn't match the shape we expected.">>

\* Values of SLACK_CHANNEL.
Channels == {"C-papers", "C-random"}

\* ------------------------------------------------------------ data model
Min(a, b) == IF a < b THEN a ELSE b

Range(s) == {s[k] : k \in 1..Len(s)}

\* The Arxiv record of the paper with identity p: title, summary, published
\* and pdf_url are the fields main.rs reads. Two papers may share a date.
Titles == <<"title-1", "title-2", "title-3", "title-4", "title-5", "title-6">>
Summaries == <<"sum-1", "sum-2", "sum-3", "sum-4", "sum-5", "sum-6">>
Dates == <<"2023-04-01", "2023-04-01", "2023-04-02", "2023-04-03", "2023-04-03", "2023-04-04">>
Pdfs == <<"pdf-1", "pdf-2", "pdf-3", "pdf-4", "pdf-5", "pdf-6">>
Arxiv(p) ==
    [id |-> p, title |-> <<Titles[p]>>, summary |-> <<Summaries[p]>>,
     published |-> <<Dates[p]>>, pdf_url |-> <<Pdfs[p]>>]

\* What fetch_arxivs returns when the index answers with n entries.
FetchedList(n) == [k \in 1..n |-> k]

\* main.rs:145-158, the Body of the chat request: the model name, the fixed
\* system instruction and the user message built from title and summary.
Body(arxiv) ==
    [model |-> "gpt-3.5-turbo",
     messages |->
        <<[role |-> "system", content |-> <<"system-instruction">>],
          [role |-> "user",
           content |-> <<"title: ">> \o arxiv.title \o <<NL, "summary: ">>
                          \o arxiv.summary]>>]

\* Message.content of a choice: one line, or several.
Contents == {<<"ja-A">>, <<"ja-B1", NL, "ja-B2">>}

ChoiceLists == UNION {[1..n -> Contents] : n \in 0..MaxChoices}

\* The body of a chat completion response: either it deserializes into Root
\* (with its choices), or it does not.
ChatBodies ==
    {[parses |-> FALSE, choices |-> <<>>]}
        \cup {[parses |-> TRUE, choices |-> cs] : cs \in ChoiceLists}

\* The body of a chat.postMessage response: read in full, or the read fails.
SlackBodies ==
    {[readable |-> FALSE, text |-> <<>>],
     [readable |-> TRUE, text |-> <<"{ok:true}">>]}

NoBody == [parses |-> FALSE, choices |-> <<>>]
NoSlackBody == [readable |-> FALSE, text |-> <<>>]
NoResponse == [status |-> 0, body |-> NoBody]
NoSlackResponse == [status |-> 0, body |-> NoSlackBody]

\* Result<String, String>, and the third outcome of a call: a panic.
Ok(v) == [kind |-> "Ok", val |-> v]
Err(e) == [kind |-> "Err", val |-> e]
Panic(why) == [kind |-> "Panic", val |-> <<why>>]
None == [kind |-> "None", val |-> <<>>]

VARIABLES
    pc,             \* main's position
    slack_channel,  \* env SLACK_CHANNEL
    fetch_result,   \* what fetch_arxivs returned: Ok(list), Err, or None yet
    arxivs,         \* main's vector (shuffled in place)
    i,              \* the loop index, 0-based
    message,        \* translate_paper's result
    response,       \* post_to_slack's result
    chat_response,  \* the HTTP response translate_paper matched on
    slack_response, \* the HTTP response post_to_slack matched on
    inflight,       \* HTTP requests sent and not yet answered
    sent,           \* every HTTP request issued, in order (api and paper)
    returned,       \* the kind of every result translate_paper returned, in order
    stdout,         \* lines printed
    abort           \* why the process aborted, "none" while it has not

vars == <<pc, slack_channel, fetch_result, arxivs, i, message, response,
          chat_response, slack_response, inflight, sent, returned, stdout, abort>>

Init ==
    /\ pc = "start"
    /\ slack_channel \in Channels
    /\ fetch_result = None
    /\ arxivs = <<>>
    /\ i = 0
    /\ message = None
    /\ response = None
    /\ chat_response = NoResponse
    /\ slack_response = NoSlackResponse
    /\ inflight = {}
    /\ sent = <<>>
    /\ returned = <<>>
    /\ stdout = <<>>
    /\ abort = "none"

\* ------------------------------------------------------- pure functions
\* main.rs:174-180, format!("<label>{}\n{}\n{}\n{}\n", published, pdf_url,
\* title, content).
Format(arxiv, content) ==
    <<DateLabel>> \o arxiv.published \o <<NL>> \o arxiv.pdf_url \o <<NL>>
        \o arxiv.title \o <<NL>> \o content \o <<NL>>

\* A faulty variant of TranslateMatch: the last choice is taken, not the first.
TranslateMatchLastChoice(arxiv, status, body) ==
    IF status = StatusOK
    THEN IF body.parses
         THEN IF Len(body.choices) = 0
              THEN Panic("choices_index")
              ELSE Ok(Format(arxiv, body.choices[Len(body.choices)]))
         ELSE Err(ErrShape)
    ELSE IF status = StatusUnauthorized THEN Err(ErrUnauthorized)
    ELSE IF status = StatusTooManyRequests THEN Err(ErrTooManyRequests)
    ELSE Err(ErrUnexpected)

\* main.rs:171-192, the match on response.status() in translate_paper.
\* parsed.choices[0] indexes a Vec: out of bounds, it panics.
TranslateMatch(arxiv, status, body) ==
    IF status = StatusOK
    THEN IF body.parses
         THEN IF Len(body.choices) = 0
              THEN Panic("choices_index")
              ELSE Ok(Format(arxiv, body.choices[1]))
         ELSE Err(ErrShape)
    ELSE IF status = StatusUnauthorized THEN Err(ErrUnauthorized)
    ELSE IF status = StatusTooManyRequests THEN Err(ErrTooManyRequests)
    ELSE Err(ErrUnexpected)

\* A faulty variant of PostMatch: the TOO_MANY_REQUESTS arm is missing, so 429 falls
\* to the `_` arm.
PostMatchNo429Arm(status, body) ==
    IF status = StatusOK
    THEN IF body.readable THEN Ok(body.text) ELSE Panic("post_body_unwrap")
    ELSE IF status = StatusUnauthorized THEN Err(ErrUnauthorized)
    ELSE Err(ErrUnexpected)

\* main.rs:118-130, the match on response.status() in post_to_slack.
\* response.text().await.unwrap() panics when the body cannot be read.
PostMatch(status, body) ==
    IF status = StatusOK
    THEN IF body.readable THEN Ok(body.text) ELSE Panic("post_body_unwrap")
    ELSE IF status = StatusUnauthorized THEN Err(ErrUnauthorized)
    ELSE IF status = StatusTooManyRequests THEN Err(ErrTooManyRequests)
    ELSE Err(ErrUnexpected)

\* A faulty variant of Unwrap: the error text is taken as the message
\* (unwrap_or_else(|e| e)).
UnwrapOrErrorText(r) == Ok(r.val)

\* main.rs:89, message.unwrap().
Unwrap(r) == IF r.kind = "Ok" THEN r ELSE Panic("message_unwrap")

\* A faulty variant of ShuffleOutcomes: every position draws an element at random,
\* with replacement.
ShuffleWithRepeats(v) == [1..Len(v) -> Range(v)]

\* main.rs:81, arxivs.shuffle(..): every permutation of the vector.
ShuffleOutcomes(v) ==
    {p \in [1..Len(v) -> Range(v)] : \A a, b \in 1..Len(v) : p[a] = p[b] => a = b}

\* main.rs:82, the loop's upper bound.
LoopBound(v) == Min(SampleSize, Len(v))

\* A faulty variant of PrintedLine: the success marker is printed whatever the result.
PrintedLineAlwaysSuccess(r) == SuccessLine

\* main.rs:95-98, the line printed for a publish result.
PrintedLine(r) == IF r.kind = "Ok" THEN SuccessLine ELSE r.val

\* main.rs:87-90, the SlackMessage that is the body of the publish request.
SlackMessage(channel, text) == [channel |-> channel, text |-> text]

\* The requests on the wire.
ArxivRequest == [api |-> "arxiv", paper |-> 0, body |-> <<>>]
ChatRequest(p) == [api |-> "openai", paper |-> p, body |-> Body(Arxiv(p))]
SlackRequest(p, m) == [api |-> "slack", paper |-> p, body |-> m]
\* What `sent` keeps of a request.
Summary(q) == [api |-> q.api, paper |-> q.paper]

\* A panic (or main returning Err) ends the process: nothing stays in flight.
Aborts(why) ==
    /\ pc' = "aborted"
    /\ abort' = why
    /\ inflight' = {}

\* -------------------------------------------------------------- actions
\* main.rs:78, fetch_arxivs(query) is called.
FetchSend ==
    /\ pc = "start"
    /\ pc' = "fetch_wait"
    /\ inflight' = inflight \cup {ArxivRequest}
    /\ sent' = Append(sent, Summary(ArxivRequest))
    /\ UNCHANGED <<slack_channel, fetch_result, arxivs, i, message, response,
                   chat_response, slack_response, returned, stdout, abort>>

\* main.rs:78, the fetch returns Ok with n entries.
FetchRecv(n) ==
    /\ pc = "fetch_wait"
    /\ pc' = "shuffle"
    /\ fetch_result' = Ok(FetchedList(n))
    /\ arxivs' = FetchedList(n)
    /\ inflight' = inflight \ {ArxivRequest}
    /\ UNCHANGED <<slack_channel, i, message, response, chat_response,
                   slack_response, sent, returned, stdout, abort>>

\* A faulty variant of FetchFail: the error is swallowed and the run goes on with an
\* empty list (unwrap_or_default()).
FetchFailSwallowed ==
    /\ pc = "fetch_wait"
    /\ pc' = "shuffle"
    /\ fetch_result' = Err(<<>>)
    /\ arxivs' = <<>>
    /\ inflight' = inflight \ {ArxivRequest}
    /\ UNCHANGED <<slack_channel, i, message, response, chat_response,
                   slack_response, sent, returned, stdout, abort>>

\* main.rs:78, the fetch returns Err and `?` returns it from main.
FetchFail ==
    /\ pc = "fetch_wait"
    /\ fetch_result' = Err(<<>>)
    /\ Aborts("fetch_error")
    /\ UNCHANGED <<slack_channel, arxivs, i, message, response,
                   chat_response, slack_response, sent, returned, stdout>>

\* main.rs:81.
Shuffle ==
    /\ pc = "shuffle"
    /\ pc' = "loop"
    /\ arxivs' \in ShuffleOutcomes(arxivs)
    /\ i' = 0
    /\ UNCHANGED <<slack_channel, fetch_result, message, response, chat_response,
                   slack_response, inflight, sent, returned, stdout, abort>>

\* main.rs:82-83 and 133-170: the loop goes on and translate_paper sends its
\* request for arxivs[i].
TranslateSend ==
    /\ pc = "loop"
    /\ i < LoopBound(arxivs)
    /\ pc' = "translate_wait"
    /\ inflight' = inflight \cup {ChatRequest(arxivs[i + 1])}
    /\ sent' = Append(sent, Summary(ChatRequest(arxivs[i + 1])))
    /\ message' = None
    /\ response' = None
    /\ slack_response' = NoSlackResponse
    /\ UNCHANGED <<slack_channel, fetch_result, arxivs, i, chat_response,
                   returned, stdout, abort>>

\* main.rs:168-170, send().await.unwrap(): no HTTP response arrives.
TranslateSendFail ==
    /\ pc = "translate_wait"
    /\ Aborts("translate_send_unwrap")
    /\ UNCHANGED <<slack_channel, fetch_result, arxivs, i, message, response,
                   chat_response, slack_response, sent, returned, stdout>>

\* main.rs:171-192 and 83: the response arrives and translate_paper returns
\* (or panics).
TranslateRecv(status, body) ==
    /\ pc = "translate_wait"
    /\ chat_response' = [status |-> status, body |-> body]
    /\ LET r == TranslateMatch(Arxiv(arxivs[i + 1]), status, body)
       IN  IF r.kind = "Panic"
           THEN /\ Aborts(r.val[1])
                /\ UNCHANGED <<message, returned>>
           ELSE /\ pc' = "translated"
                /\ message' = r
                /\ returned' = Append(returned, r.kind)
                /\ inflight' = {q \in inflight : q.api # "openai"}
                /\ UNCHANGED abort
    /\ UNCHANGED <<slack_channel, fetch_result, arxivs, i, response,
                   slack_response, sent, stdout>>

\* A faulty variant of PostSend: the publish is spawned and not awaited, and the loop
\* moves on at once.
PostSendSpawned ==
    /\ pc = "translated"
    /\ message.kind = "Ok"
    /\ pc' = "loop"
    /\ i' = i + 1
    /\ inflight' = inflight \cup
          {SlackRequest(arxivs[i + 1], SlackMessage(slack_channel, message.val))}
    /\ sent' = Append(sent, [api |-> "slack", paper |-> arxivs[i + 1]])
    /\ UNCHANGED <<slack_channel, fetch_result, arxivs, message, response,
                   chat_response, slack_response, returned, stdout, abort>>

\* main.rs:86-93 and 104-115: message.unwrap() builds the SlackMessage and
\* post_to_slack sends it; on an Err the unwrap panics.
PostSend ==
    /\ pc = "translated"
    /\ LET m == Unwrap(message)
       IN  IF m.kind = "Panic"
           THEN /\ Aborts(m.val[1])
                /\ UNCHANGED sent
           ELSE /\ pc' = "post_wait"
                /\ inflight' = inflight \cup
                      {SlackRequest(arxivs[i + 1], SlackMessage(slack_channel, m.val))}
                /\ sent' = Append(sent, [api |-> "slack", paper |-> arxivs[i + 1]])
                /\ UNCHANGED abort
    /\ UNCHANGED <<slack_channel, fetch_result, arxivs, i, message, response,
                   chat_response, slack_response, returned, stdout>>

\* main.rs:115-117, send().await.unwrap(): no HTTP response arrives.
PostSendFail ==
    /\ pc = "post_wait"
    /\ Aborts("post_send_unwrap")
    /\ UNCHANGED <<slack_channel, fetch_result, arxivs, i, message, response,
                   chat_response, slack_response, sent, returned, stdout>>

\* main.rs:118-130 and 93: the response arrives and post_to_slack returns
\* (or panics). translate_paper's response is long gone by now.
PostRecv(status, body) ==
    /\ pc = "post_wait"
    /\ slack_response' = [status |-> status, body |-> body]
    /\ chat_response' = NoResponse
    /\ LET r == PostMatch(status, body)
       IN  IF r.kind = "Panic"
           THEN /\ Aborts(r.val[1])
                /\ UNCHANGED response
           ELSE /\ pc' = "print"
                /\ response' = r
                /\ inflight' = {q \in inflight : q.api # "slack"}
                /\ UNCHANGED abort
    /\ UNCHANGED <<slack_channel, fetch_result, arxivs, i, message, sent,
                   returned, stdout>>

\* A faulty variant of PrintResult: a failed publish is tried again (the index stays).
PrintResultRetry ==
    /\ pc = "print"
    /\ pc' = "loop"
    /\ stdout' = Append(stdout, PrintedLine(response))
    /\ i' = (IF response.kind = "Err" THEN i ELSE i + 1)
    /\ UNCHANGED <<slack_channel, fetch_result, arxivs, message, response,
                   chat_response, slack_response, inflight, sent, returned, abort>>

\* main.rs:95-99: one line is printed and the loop moves on.
PrintResult ==
    /\ pc = "print"
    /\ pc' = "loop"
    /\ stdout' = Append(stdout, PrintedLine(response))
    /\ i' = i + 1
    /\ UNCHANGED <<slack_channel, fetch_result, arxivs, message, response,
                   chat_response, slack_response, inflight, sent, returned, abort>>

\* main.rs:82 and 101: the range is exhausted and main returns Ok(()).
Finish ==
    /\ pc = "loop"
    /\ ~(i < LoopBound(arxivs))
    /\ pc' = "done"
    /\ UNCHANGED <<slack_channel, fetch_result, arxivs, i, message, response,
                   chat_response, slack_response, inflight, sent, returned,
                   stdout, abort>>

Next ==
    \/ FetchSend
    \/ \E n \in 0..MaxPapers : FetchRecv(n)
    \/ FetchFail
    \/ Shuffle
    \/ TranslateSend
    \/ TranslateSendFail
    \/ \E s \in Statuses : \E b \in ChatBodies : TranslateRecv(s, b)
    \/ PostSend
    \/ PostSendFail
    \/ \E s \in Statuses : \E b \in SlackBodies : PostRecv(s, b)
    \/ PrintResult
    \/ Finish

Spec == Init /\ [][Next]_vars

\* ------------------------------------------------- vocabulary of the claims
RECURSIVE SplitLines(_)
\* The lines of a text: the token runs between its line breaks.
SplitLines(t) ==
    IF \A k \in 1..Len(t) : t[k] # "\n"
    THEN <<t>>
    ELSE LET k == CHOOSE a \in 1..Len(t) :
                      t[a] = "\n" /\ \A b \in 1..(a - 1) : t[b] # "\n"
         IN  <<SubSeq(t, 1, k - 1)>> \o SplitLines(SubSeq(t, k + 1, Len(t)))

RECURSIVE JoinLines(_)
JoinLines(ls) ==
    IF Len(ls) = 0 THEN <<>>
    ELSE IF Len(ls) = 1 THEN ls[1]
    ELSE ls[1] \o <<"\n">> \o JoinLines(Tail(ls))

IsTranslate(q) == q.api = "openai"
IsPublish(q) == q.api = "slack"
IsFetch(q) == q.api = "arxiv"
TranslateRequests == SelectSeq(sent, IsTranslate)
PublishRequests == SelectSeq(sent, IsPublish)
FetchRequests == SelectSeq(sent, IsFetch)
PapersOf(reqs) == [k \in 1..Len(reqs) |-> reqs[k].paper]
IsPrefix(a, b) == Len(a) <= Len(b) /\ \A k \in 1..Len(a) : a[k] = b[k]
Fetched == IF fetch_result.kind = "Ok" THEN fetch_result.val ELSE <<>>
NFetched == Len(Fetched)
Min3(n) == IF n < 3 THEN n ELSE 3
\* The items the loop ranges over, once the vector is shuffled.
HasShuffled == pc \notin {"start", "fetch_wait", "shuffle"} /\ fetch_result.kind = "Ok"
Sampled == SubSeq(arxivs, 1, Min3(Len(arxivs)))
Ended == pc \in {"done", "aborted"}
ErrorTexts ==
    {<<"Status: UNAUTHORIZED - Need to grab a new token">>,
     <<"Status: 429 - Too many requests">>,
     <<"Status: {:#?} - Something unexpected happened">>,
     <<"Hm, the response didn't match the shape we expected.">>}
\* The diagnostic that classifies a status other than 200.
Classified(st) ==
    IF st = 401 THEN <<"Status: UNAUTHORIZED - Need to grab a new token">>
    ELSE IF st = 429 THEN <<"Status: 429 - Too many requests">>
    ELSE <<"Status: {:#?} - Something unexpected happened">>

\* ------------------------------------------------------------------ claims
\* C1: a translation that ends in an error result (401, 429, another status
\* that is not 200, or a 200 whose body does not parse) does not abort the
\* run: the process does not abort because of it, and a run that is over has
\* called translate_paper for every sampled item.
C1_FailedTranslationDoesNotAbort ==
    (\E k \in 1..Len(returned) : returned[k] = "Err") =>
        /\ abort # "message_unwrap"
        /\ (Ended => Len(TranslateRequests) = Min3(NFetched))

\* C2: a 200 response whose body parses and whose choices list is empty makes
\* translate_paper return the malformed-response error; it does not panic.
C2_EmptyChoicesIsMalformedError ==
    (/\ chat_response.status = 200
     /\ chat_response.body.parses
     /\ Len(chat_response.body.choices) = 0) =>
        /\ abort = "none"
        /\ message = Err(<<"Hm, the response didn't match the shape we expected.">>)

\* What every claim about a publish result reads: the line printed for the
\* publish that was answered last, once it is printed.
LastPublishPrinted == pc \in {"loop", "done"} /\ slack_response.status # 0

C4_StatusClassification ==
    /\ (pc = "translated") =>
          /\ chat_response.status \in Statuses
          /\ (chat_response.status # 200) =>
                message = [kind |-> "Err", val |-> Classified(chat_response.status)]
    /\ (pc = "print") =>
          /\ slack_response.status \in Statuses
          /\ (slack_response.status # 200) =>
                response = [kind |-> "Err", val |-> Classified(slack_response.status)]
    /\ (abort = "choices_index") => chat_response.status = 200
    /\ (abort = "post_body_unwrap") => slack_response.status = 200
    /\ (message.kind = "Ok") => chat_response.status \in {0, 200}
    /\ (response.kind = "Ok") => slack_response.status = 200
    /\ Classified(401) # Classified(429)
    /\ Classified(401) # Classified(500)
    /\ Classified(429) # Classified(500)
    /\ \A st \in Statuses \ {200, 401, 429} : Classified(st) = Classified(500)

\* C4 witness: the second item's translation has just been classified as a
\* rate-limit error although the 429 came with a body that would parse, after
\* the first item's publish was classified as an unexpected status.
C4_Witness ==
    /\ pc = "translated"
    /\ i = 1
    /\ chat_response.status = 429
    /\ chat_response.body.parses
    /\ Len(chat_response.body.choices) = 1
    /\ message = Err(ErrTooManyRequests)
    /\ slack_response.status = 0
    /\ stdout = <<ErrUnexpected>>

\* C5: the items main processes are min(3, N) pairwise distinct elements of
\* the fetched list, a prefix of a permutation of it: the loop ranges over
\* exactly these, translate and publish requests are issued for them in that
\* order and for nothing else, none twice, and a run that completes has
\* processed all of them; with N = 1 the one paper is the sample, with N = 0
\* no translate or publish request is issued.
C5_SampleIsDistinctPrefix ==
    /\ ~HasShuffled =>
          Len(TranslateRequests) = 0 /\ Len(PublishRequests) = 0
    /\ HasShuffled =>
          /\ Len(arxivs) = NFetched
          /\ Range(arxivs) = Range(Fetched)
          /\ Len(Sampled) = Min3(NFetched)
          /\ \A a, b \in 1..Len(Sampled) : Sampled[a] = Sampled[b] => a = b
          /\ Range(Sampled) \subseteq Range(Fetched)
          /\ IsPrefix(PapersOf(TranslateRequests), Sampled)
          /\ IsPrefix(PapersOf(PublishRequests), Sampled)
          /\ \A q \in inflight : q.paper \in Range(Sampled)
          /\ (pc = "done") =>
                /\ PapersOf(TranslateRequests) = Sampled
                /\ PapersOf(PublishRequests) = Sampled
          /\ (NFetched = 1) => Sampled = Fetched
          /\ (NFetched = 0) =>
                Len(TranslateRequests) = 0 /\ Len(PublishRequests) = 0

\* C5 witness: four papers fetched, the run completed, three different papers
\* processed, not the first three as fetched.
C5_Witness ==
    /\ pc = "done"
    /\ NFetched = 4
    /\ Len(PublishRequests) = 3
    /\ Sampled # SubSeq(Fetched, 1, 3)
    /\ 4 \in Range(Sampled)

\* C6: the network calls are strictly sequential: never two in flight, and
\* the requests go out as fetch, then per sampled item in index order its
\* translate and then its publish; a request goes out only when every earlier
\* one has been answered.
C6_CallsAreSequential ==
    /\ Cardinality(inflight) <= 1
    /\ \A q \in inflight :
          /\ Len(sent) > 0
          /\ sent[Len(sent)] = [api |-> q.api, paper |-> q.paper]
    /\ \A k \in 1..Len(sent) :
          IF k = 1 THEN sent[k].api = "arxiv"
          ELSE IF k % 2 = 0
               THEN sent[k] = [api |-> "openai", paper |-> arxivs[k \div 2]]
               ELSE sent[k] = [api |-> "slack", paper |-> arxivs[(k - 1) \div 2]]
    /\ Len(sent) <= 1 + 2 * Min3(Len(arxivs))
    /\ (pc = "translate_wait") =>
          /\ Len(sent) = 2 * (i + 1)
          /\ inflight = {ChatRequest(arxivs[i + 1])}
    /\ (pc = "post_wait") =>
          /\ Len(sent) = 2 * (i + 1) + 1
          /\ Cardinality(inflight) = 1
          /\ \A q \in inflight : q.api = "slack"
    /\ (pc \in {"start", "shuffle", "loop", "translated", "print", "done", "aborted"}) =>
          inflight = {}

\* C6 witness: the translate call of the second item is in flight, alone,
\* after the first item's publish was answered.
C6_Witness ==
    /\ pc = "translate_wait"
    /\ i = 1
    /\ Len(sent) = 4
    /\ slack_response = NoSlackResponse
    /\ Len(stdout) = 1
    /\ Cardinality(inflight) = 1

\* C7: when the fetch fails the run ends with that error before any
\* sampling: no translate and no publish request is ever issued, nothing is
\* posted and nothing printed.
C7_FetchFailureEndsRun ==
    (fetch_result.kind = "Err") =>
        /\ pc = "aborted"
        /\ abort = "fetch_error"
        /\ sent = <<[api |-> "arxiv", paper |-> 0]>>
        /\ inflight = {}
        /\ arxivs = <<>>
        /\ stdout = <<>>
        /\ returned = <<>>

C7_Witness == fetch_result.kind = "Err" /\ pc = "aborted" /\ Len(sent) = 1

\* C8: for a 200 translation response with at least one choice, the text
\* translate_paper returns has the publication date (after the fixed label)
\* on its first line, the pdf link on its second, the title on its third and
\* the content of the first choice after that, and ends with a line break;
\* the publish request carries exactly this text, with the configured channel.
C8_TextLinesAndPublishedUnchanged ==
    /\ (pc \in {"translated", "post_wait"} /\ message.kind = "Ok") =>
          LET a == Arxiv(arxivs[i + 1])
              ls == SplitLines(message.val)
          IN  /\ chat_response.status = 200
              /\ Len(chat_response.body.choices) >= 1
              /\ Len(ls) >= 5
              /\ ls[1] = <<DateLabel>> \o a.published
              /\ ls[2] = a.pdf_url
              /\ ls[3] = a.title
              /\ JoinLines(SubSeq(ls, 4, Len(ls) - 1)) = chat_response.body.choices[1]
              /\ ls[Len(ls)] = <<>>
    /\ (pc = "post_wait") =>
          /\ message.kind = "Ok"
          /\ \A q \in inflight :
                /\ q.api = "slack"
                /\ q.paper = arxivs[i + 1]
                /\ q.body = [channel |-> slack_channel, text |-> message.val]

\* C8 witness: a publish is in flight for a translation whose response had
\* two different choices, the first of them of several lines.
C8_Witness ==
    /\ pc = "post_wait"
    /\ Len(chat_response.body.choices) = 2
    /\ chat_response.body.choices[1] # chat_response.body.choices[2]
    /\ Len(SplitLines(chat_response.body.choices[1])) = 2
    /\ inflight # {}

\* C9: no retries: the fetch is issued once, every paper gets at most one
\* translate request and at most one publish request whatever the outcomes,
\* so at most min(3, N) of each are issued in a run.
C9_NoRetries ==
    /\ Len(FetchRequests) = (IF pc = "start" THEN 0 ELSE 1)
    /\ \A a, b \in 1..Len(TranslateRequests) :
          TranslateRequests[a].paper = TranslateRequests[b].paper => a = b
    /\ \A a, b \in 1..Len(PublishRequests) :
          PublishRequests[a].paper = PublishRequests[b].paper => a = b
    /\ Len(TranslateRequests) <= Min3(NFetched)
    /\ Len(PublishRequests) <= Min3(NFetched)
    /\ Len(TranslateRequests) <= i + 1
    /\ Len(PublishRequests) <= i + 1

\* C9 witness: a run over three items completed although the first publish
\* was answered 429 and the second 500: three translate and three publish
\* requests in all.
C9_Witness ==
    /\ pc = "done"
    /\ Len(stdout) = 3
    /\ stdout[1] = ErrTooManyRequests
    /\ stdout[2] = ErrUnexpected
    /\ Len(TranslateRequests) = 3
    /\ Len(PublishRequests) = 3

\* C10: a publish request is issued for an item only after its translate
\* call returned a success: there are never more publish requests than
\* successful translations, no error text is ever the text of a publish
\* request, and once a translate call has returned an error no further
\* request of any kind is issued.
C10_PublishOnlyAfterSuccess ==
    /\ Len(PublishRequests) <=
          Cardinality({k \in 1..Len(returned) : returned[k] = "Ok"})
    /\ \A q \in inflight :
          q.api = "slack" =>
              /\ q.body.text \notin ErrorTexts
              /\ message.kind = "Ok"
              /\ returned[Len(returned)] = "Ok"
    /\ \A k \in 1..Len(returned) :
          returned[k] = "Err" =>
              /\ k = Len(returned)
              /\ Len(TranslateRequests) = k
              /\ Len(PublishRequests) = k - 1
              /\ inflight = {}
              /\ pc \in {"translated", "aborted"}

\* C10 witness: the second item's translation returned an error after the
\* first item was published, and the run is over.
C10_Witness ==
    /\ pc = "aborted"
    /\ returned = <<"Ok", "Err">>
    /\ Len(PublishRequests) = 1
    /\ Len(stdout) = 1

====
